---- MODULE Spec2Model ----
(***************************************************************************)
(* Model of lib/availability (aggregateSlots, buildTimeline) of calfind.   *)
(* Around it: refreshResponses of the project page, AvailabilityForm with  *)
(* its slot list and time labels, the drag of TimelineVisualizer, and the  *)
(* document routes (upload, sign, GET) with their tables and bucket.       *)
(*                                                                         *)
(* Strings are modelled by what the code does with them:                   *)
(*   - a time string "HH:MM" is the tuple <<h1, h2, m1, m2>> of its four   *)
(*     digits (the colon sits at a fixed position); toMinutes parses it,   *)
(*     localeCompare compares it digit by digit;                           *)
(*   - a date string "YYYY-MM-DD" is the tuple of its eight digits;        *)
(*   - a JS Map / Set is a sequence in insertion order without repeated    *)
(*     keys / members; an array is a sequence.                             *)
(***************************************************************************)
EXTENDS Integers, Sequences, FiniteSets, TLC

VARIABLES
    responses,      \* the list of ParticipantAvailability the caller holds
    aggregated,     \* the result of the last call of aggregateSlots
    timeline,       \* the result of the last call of buildTimeline
    called,         \* the function called last
    args,           \* for each function, <<input>> of its last call, <<>> before
    table,          \* the rows of availability_responses, in created_at order
    notifications,  \* callbacks not yet run: "postgres_changes" events, "onSaved"
    requests,       \* the refreshResponses invocations, in the order they started
    syncing,        \* the syncing flag of the page
    formSlots,      \* the slot list (slots) of AvailabilityForm
    startTime,      \* the startTime label of AvailabilityForm
    endTime,        \* the endTime label of AvailabilityForm
    range,          \* <<[start, end]>> handed to handleTimeRangeChange last, <<>> before
    dragState,      \* <<DragState>> of TimelineVisualizer, <<>> for null
    justDragged,    \* the justDragged flag of TimelineVisualizer
    segmentChange,  \* <<arguments>> of the last onSegmentChange call, <<>> before
    moveEvents,     \* pointer-move events of the dragging pointer since pointer-down
    store,          \* the tables and the storage bucket of the documents
    calls,          \* the invocations of the document routes, in the order they started
    disclosed       \* the documents handed out, each with the route and the inviteeId

\* The state of the project page around refreshResponses.
pageVars == <<table, notifications, requests, syncing>>

\* The state of AvailabilityForm and of the TimelineVisualizer it renders.
formVars == <<formSlots, startTime, endTime, range, dragState, justDragged, segmentChange,
              moveEvents>>

\* The state behind the document routes.
docVars == <<store, calls, disclosed>>

vars == <<responses, aggregated, timeline, called, args, pageVars, formVars, docVars>>

(***************************************************************************)
(* Bounds of the model and the input universe.                             *)
(***************************************************************************)
\* Largest total number of slots over all participants of an input list.
MaxSlots == 3

\* Participant ids (ParticipantAvailability.id).
Ids == {"P1", "P2"}

\* "2024-03-10" and "2024-03-11"
Date1 == <<2, 0, 2, 4, 0, 3, 1, 0>>

Date2 == <<2, 0, 2, 4, 0, 3, 1, 1>>

Dates == { Date1, Date2 }

\* startTime values: "09:00", "09:30", "10:00", "24:00"
StartTimes == { <<0, 9, 0, 0>>, <<0, 9, 3, 0>>, <<1, 0, 0, 0>>, <<2, 4, 0, 0>> }

\* endTime values: "09:30", "10:00", "24:30"
EndTimes == { <<0, 9, 3, 0>>, <<1, 0, 0, 0>>, <<2, 4, 3, 0>> }

\* The AvailabilitySlot values of the inputs. On the first date every start
\* with every end: slots inside the day, slots whose end passes the end of the
\* day, zero-length and negative slots, and a slot that starts at the end of
\* the day. On the second date 09:00 to 09:30 and 09:00 to 24:30.
Slots ==
    [date : {Date1}, startTime : StartTimes, endTime : EndTimes]
    \cup [date : {Date2}, startTime : { <<0, 9, 0, 0>> },
          endTime : { <<0, 9, 3, 0>>, <<2, 4, 3, 0>> }]

(***************************************************************************)
(* Sequence helpers.                                                       *)
(***************************************************************************)
Range(s) == { s[i] : i \in DOMAIN s }

RemoveAt(s, i) == SubSeq(s, 1, i - 1) \o SubSeq(s, i + 1, Len(s))

SwapAt(s, i) == [k \in DOMAIN s |-> IF k = i THEN s[i + 1]
                                  ELSE IF k = i + 1 THEN s[i] ELSE s[k]]

Max(a, b) == IF a >= b THEN a ELSE b

Min(a, b) == IF a <= b THEN a ELSE b

(***************************************************************************)
(* lib/availability                                                        *)
(***************************************************************************)
minutesInDay == 24 * 60

\* time.split(":").map(Number); hours * 60 + minutes
toMinutes(time) == (time[1] * 10 + time[2]) * 60 + (time[3] * 10 + time[4])

\* a.localeCompare(b) on two digit strings of equal length: -1, 0 or 1.
RECURSIVE localeCompare(_, _)
localeCompare(a, b) ==
    IF a = <<>> THEN 0
    ELSE IF a[1] < b[1] THEN -1
    ELSE IF a[1] > b[1] THEN 1
    ELSE localeCompare(Tail(a), Tail(b))

(***************************************************************************)
(* aggregateSlots                                                          *)
(***************************************************************************)
\* slotKey with the endTime left out of the key.
slotKeyNoEnd(slot) == slot.date \o <<"_">> \o slot.startTime

\* const key = `${slot.date}_${slot.startTime}_${slot.endTime}`
slotKey(slot) == slot.date \o <<"_">> \o slot.startTime \o <<"_">> \o slot.endTime

\* Position of key in the Map (a sequence of [key, value] entries), 0 if absent.
mapIndex(map, key) ==
    IF \E i \in DOMAIN map : map[i].key = key
    THEN CHOOSE i \in DOMAIN map : map[i].key = key
    ELSE 0

\* slotMap.get(key)
mapHas(map, key) == mapIndex(map, key) # 0

\* slotMap.set(key, value): an existing key keeps its position, a new key is
\* appended.
mapSet(map, key, value) ==
    IF mapHas(map, key)
    THEN [map EXCEPT ![mapIndex(map, key)] = [key |-> key, value |-> value]]
    ELSE Append(map, [key |-> key, value |-> value])

\* aggregateSlot where an existing entry gets the new id in place of its list.
aggregateSlotOverwrite(slotMap, slot, id) ==
    LET key == slotKey(slot)
    IN  mapSet(slotMap, key,
               [date |-> slot.date, startTime |-> slot.startTime,
                endTime |-> slot.endTime, participantIds |-> <<id>>])

\* The body of response.slots.forEach for one slot of the response with this id.
aggregateSlot(slotMap, slot, id) ==
    LET key == slotKey(slot)
    IN  IF mapHas(slotMap, key)
        THEN LET existing == slotMap[mapIndex(slotMap, key)].value
             IN  mapSet(slotMap, key,
                        [existing EXCEPT !.participantIds = Append(@, id)])
        ELSE mapSet(slotMap, key,
                    [date |-> slot.date, startTime |-> slot.startTime,
                     endTime |-> slot.endTime, participantIds |-> <<id>>])

\* response.slots.forEach(...)
RECURSIVE aggregateResponse(_, _, _)
aggregateResponse(slotMap, slots, id) ==
    IF slots = <<>> THEN slotMap
    ELSE aggregateResponse(aggregateSlot(slotMap, Head(slots), id), Tail(slots), id)

\* responses.forEach(...)
RECURSIVE aggregateResponses(_, _)
aggregateResponses(slotMap, rs) ==
    IF rs = <<>> THEN slotMap
    ELSE aggregateResponses(aggregateResponse(slotMap, Head(rs).slots, Head(rs).id),
                            Tail(rs))

\* compareAggregated without the comparison of the dates.
compareAggregatedStartOnly(a, b) == localeCompare(a.startTime, b.startTime)

\* The comparator of the final sort: by date, then by startTime.
compareAggregated(a, b) ==
    IF a.date = b.date
    THEN localeCompare(a.startTime, b.startTime)
    ELSE localeCompare(a.date, b.date)

\* Array.prototype.sort is stable: x goes before the first element it is
\* strictly smaller than.
RECURSIVE insertAggregated(_, _)
insertAggregated(sorted, x) ==
    IF sorted = <<>> THEN <<x>>
    ELSE IF compareAggregated(x, Head(sorted)) < 0 THEN <<x>> \o sorted
    ELSE <<Head(sorted)>> \o insertAggregated(Tail(sorted), x)

RECURSIVE sortAggregated(_, _)
sortAggregated(sorted, rest) ==
    IF rest = <<>> THEN sorted
    ELSE sortAggregated(insertAggregated(sorted, Head(rest)), Tail(rest))

\* Array.from(slotMap.values())
mapValues(map) == [i \in DOMAIN map |-> map[i].value]

aggregateSlots(rs) == sortAggregated(<<>>, mapValues(aggregateResponses(<<>>, rs)))

(***************************************************************************)
(* buildTimeline                                                           *)
(***************************************************************************)
\* slotDiscarded that lets zero-length slots and slots from 24:00 on pass.
slotDiscardedNegativeOnly(start, end) == end < start

\* if (end <= start || start >= minutesInDay) return;
slotDiscarded(start, end) == end <= start \/ start >= minutesInDay

\* eventsByDate.get(slot.date) ?? []
eventsOf(eventsByDate, date) ==
    IF mapHas(eventsByDate, date)
    THEN eventsByDate[mapIndex(eventsByDate, date)].value
    ELSE <<>>

\* collectSlot without the clamp of the end to the end of the day.
collectSlotNoClamp(eventsByDate, slot, id) ==
    LET start == toMinutes(slot.startTime)
        end == toMinutes(slot.endTime)
    IN  IF slotDiscarded(start, end) THEN eventsByDate
        ELSE mapSet(eventsByDate, slot.date,
                    eventsOf(eventsByDate, slot.date)
                    \o << [minutes |-> Max(0, start), type |-> "start",
                           participantId |-> id],
                          [minutes |-> end, type |-> "end", participantId |-> id] >>)

\* collectSlot that pushes on the list of the date created last, whatever the
\* date of the slot, and stores that list under the date of the slot.
collectSlotSharedList(eventsByDate, slot, id) ==
    LET start == toMinutes(slot.startTime)
        end == toMinutes(slot.endTime)
    IN  IF slotDiscarded(start, end) THEN eventsByDate
        ELSE LET events == IF eventsByDate = <<>> THEN <<>>
                           ELSE eventsByDate[Len(eventsByDate)].value
             IN  mapSet(eventsByDate, slot.date,
                        events \o << [minutes |-> Max(0, start), type |-> "start",
                                      participantId |-> id],
                                     [minutes |-> Min(end, minutesInDay), type |-> "end",
                                      participantId |-> id] >>)

\* The body of response.slots.forEach for one slot of the response with this id:
\* a kept slot pushes its start event and its end event on the list of its date.
collectSlot(eventsByDate, slot, id) ==
    LET start == toMinutes(slot.startTime)
        end == toMinutes(slot.endTime)
    IN  IF slotDiscarded(start, end) THEN eventsByDate
        ELSE LET safeEnd == Min(end, minutesInDay)
                 events == eventsOf(eventsByDate, slot.date)
             IN  mapSet(eventsByDate, slot.date,
                        events \o << [minutes |-> Max(0, start), type |-> "start",
                                      participantId |-> id],
                                     [minutes |-> safeEnd, type |-> "end",
                                      participantId |-> id] >>)

\* response.slots.forEach(...)
RECURSIVE collectResponse(_, _, _)
collectResponse(eventsByDate, slots, id) ==
    IF slots = <<>> THEN eventsByDate
    ELSE collectResponse(collectSlot(eventsByDate, Head(slots), id), Tail(slots), id)

\* responses.forEach(...)
RECURSIVE collectResponses(_, _)
collectResponses(eventsByDate, rs) ==
    IF rs = <<>> THEN eventsByDate
    ELSE collectResponses(collectResponse(eventsByDate, Head(rs).slots, Head(rs).id),
                          Tail(rs))

\* compareEvents without the tie-break on the type.
compareEventsNoTie(a, b) == a.minutes - b.minutes

\* The comparator of events.sort: by minutes, an end before a start on a tie.
compareEvents(a, b) ==
    IF a.minutes = b.minutes
    THEN IF a.type = b.type THEN 0
         ELSE IF a.type = "end" THEN -1 ELSE 1
    ELSE a.minutes - b.minutes

\* Stable sort, as for sortAggregated.
RECURSIVE insertEvent(_, _)
insertEvent(sorted, x) ==
    IF sorted = <<>> THEN <<x>>
    ELSE IF compareEvents(x, Head(sorted)) < 0 THEN <<x>> \o sorted
    ELSE <<Head(sorted)>> \o insertEvent(Tail(sorted), x)

RECURSIVE sortEvents(_, _)
sortEvents(sorted, rest) ==
    IF rest = <<>> THEN sorted
    ELSE sortEvents(insertEvent(sorted, Head(rest)), Tail(rest))

\* setAdd that appends the id whether or not it is a member already.
setAddAgain(active, id) == Append(active, id)

\* active.add(id): a Set keeps insertion order and holds no member twice.
setAdd(active, id) == IF id \in Range(active) THEN active ELSE Append(active, id)

\* setDelete that removes nothing.
setDeleteNothing(active, id) == active

\* active.delete(id)
setDelete(active, id) == SelectSeq(active, LAMBDA x : x # id)

\* sweepEvent that does not advance prevMinute.
sweepEventStalePrev(sweep, event) ==
    [active |-> IF event.type = "start"
                THEN setAdd(sweep.active, event.participantId)
                ELSE setDelete(sweep.active, event.participantId),
     segments |-> IF Len(sweep.active) > 0 /\ event.minutes > sweep.prevMinute
                  THEN Append(sweep.segments,
                              [startMinutes |-> sweep.prevMinute,
                               endMinutes |-> event.minutes,
                               participantIds |-> sweep.active])
                  ELSE sweep.segments,
     prevMinute |-> sweep.prevMinute]

\* The body of sorted.forEach for one event; sweep is the record of the three
\* locals active, segments and prevMinute.
sweepEvent(sweep, event) ==
    LET emitted ==
            IF Len(sweep.active) > 0 /\ event.minutes > sweep.prevMinute
            THEN Append(sweep.segments,
                        [startMinutes |-> sweep.prevMinute,
                         endMinutes |-> event.minutes,
                         participantIds |-> sweep.active])
            ELSE sweep.segments
    IN  [active |-> IF event.type = "start"
                    THEN setAdd(sweep.active, event.participantId)
                    ELSE setDelete(sweep.active, event.participantId),
         segments |-> emitted,
         prevMinute |-> event.minutes]

\* sorted.forEach(...)
RECURSIVE sweepEvents(_, _)
sweepEvents(sweep, sorted) ==
    IF sorted = <<>> THEN sweep
    ELSE sweepEvents(sweepEvent(sweep, Head(sorted)), Tail(sorted))

\* The body of eventsByDate.forEach: the segments of one date.
dateSegments(events) ==
    LET sorted == sortEvents(<<>>, events)
        first == [active |-> <<>>, segments |-> <<>>,
                  prevMinute |-> IF sorted = <<>> THEN 0 ELSE sorted[1].minutes]
    IN  sweepEvents(first, sorted).segments

\* buildTimeline that starts from a timeline with a key for every date.
buildTimelineEveryDate(rs) ==
    LET eventsByDate == collectResponses(<<>>, rs)
    IN  [date \in Dates |-> dateSegments(eventsOf(eventsByDate, date))]

\* TimelineByDate is the function from the dates that have a key to their
\* segment lists.
buildTimeline(rs) ==
    LET eventsByDate == collectResponses(<<>>, rs)
    IN  [date \in { eventsByDate[i].key : i \in DOMAIN eventsByDate } |->
            dateSegments(eventsOf(eventsByDate, date))]

(***************************************************************************)
(* The inputs and the calls.                                               *)
(***************************************************************************)
\* The participant lists: every participant at most once, in any order.
IdLists == { s \in UNION { [1..k -> Ids] : k \in 0..Cardinality(Ids) } :
               \A i, j \in DOMAIN s : i # j => s[i] # s[j] }

\* The sum of the first i entries of counts.
RECURSIVE SumTo(_, _)
SumTo(counts, i) == IF i = 0 THEN 0 ELSE counts[i] + SumTo(counts, i - 1)

\* The list of ParticipantAvailability of the participants ids, in that order,
\* where participant i has the next counts[i] slots of the slot list flat.
ResponsesOf(ids, counts, flat) ==
    [i \in DOMAIN ids |->
        [id |-> ids[i],
         slots |-> SubSeq(flat, SumTo(counts, i - 1) + 1, SumTo(counts, i))]]

\* rs is a list of ParticipantAvailability with at most MaxSlots slots in all.
IsInput(rs) ==
    \E ids \in IdLists :
        \E counts \in [DOMAIN ids -> 0..MaxSlots] :
            /\ SumTo(counts, Len(ids)) <= MaxSlots
            /\ \E flat \in [1..SumTo(counts, Len(ids)) -> Slots] :
                  rs = ResponsesOf(ids, counts, flat)

\* Nothing has been called yet.
(***************************************************************************)
(* AvailabilityForm: the props, the time labels, and the states before any *)
(* user action.                                                            *)
(***************************************************************************)
\* allowedTimes of the form: 09:00 to 09:30.
allowedTimes == [startMinutes |-> 540, endMinutes |-> 570]

\* editableStep and editableMinDuration the form hands to TimelineVisualizer.
editableStep == 15

editableMinDuration == 15

\* Number.toString() of a non-negative integer, as its digits.
RECURSIVE toString(_)
toString(n) == IF n < 10 THEN <<n>> ELSE toString(n \div 10) \o <<n % 10>>

\* .padStart(2, "0")
padStart2(digits) == IF Len(digits) < 2 THEN <<0>> \o digits ELSE digits

\* minutesToTime without the clamp to the day.
minutesToTimeNoClamp(minutes) ==
    padStart2(toString(minutes \div 60)) \o padStart2(toString(minutes % 60))

\* minutesToTime of TimeRangeSelector: clamp to [0, 24 * 60], then `${hours}:${mins}`
\* with both parts padded to two digits.
minutesToTime(minutes) ==
    LET clamped == Max(0, Min(minutes, 24 * 60))
        hours == padStart2(toString(clamped \div 60))
        mins == padStart2(toString(clamped % 60))
    IN  hours \o mins

\* timeToMinutes of TimeRangeSelector: time.split(":").map(Number); hours * 60 + minutes
timeToMinutes(time) == (time[1] * 10 + time[2]) * 60 + (time[3] * 10 + time[4])

\* initialEnd = Math.min(allowedTimes.endMinutes, allowedTimes.startMinutes + 60)
initialEnd == Min(allowedTimes.endMinutes, allowedTimes.startMinutes + 60)

\* The useState initial values of the form and of the visualizer, the slot list
\* apart.
FormFresh ==
    /\ startTime = minutesToTime(allowedTimes.startMinutes)
    /\ endTime = minutesToTime(Max(allowedTimes.startMinutes + 15, initialEnd))
    /\ range = <<>>
    /\ dragState = <<>>
    /\ justDragged = FALSE
    /\ segmentChange = <<>>
    /\ moveEvents = 0

\* The form before any user action.
FormIdle ==
    /\ formSlots = <<>>
    /\ FormFresh

\* No document, no file, no request yet.
DocsEmpty ==
    /\ store = [documents |-> {}, versions |-> {}, permissions |-> {},
                signatures |-> {}, files |-> {}]
    /\ calls = <<>>
    /\ disclosed = {}

Init ==
    /\ responses = <<>>
    /\ aggregated = <<>>
    /\ timeline = <<>>
    /\ called = "none"
    /\ args = [f \in {"aggregateSlots", "buildTimeline"} |-> <<>>]
    /\ table = <<>>
    /\ notifications = <<>>
    /\ requests = <<>>
    /\ syncing = FALSE
    /\ FormIdle
    /\ DocsEmpty

\* aggregateSlots(responses) on any input.
CallAggregateSlots ==
    /\ called = "none"
    /\ IsInput(responses')
    /\ aggregated' = aggregateSlots(responses')
    /\ called' = "aggregateSlots"
    /\ args' = [args EXCEPT !["aggregateSlots"] = <<responses'>>]
    /\ UNCHANGED <<timeline, pageVars, formVars, docVars>>

\* buildTimeline(responses) on any input.
CallBuildTimeline ==
    /\ called = "none"
    /\ IsInput(responses')
    /\ timeline' = buildTimeline(responses')
    /\ called' = "buildTimeline"
    /\ args' = [args EXCEPT !["buildTimeline"] = <<responses'>>]
    /\ UNCHANGED <<aggregated, pageVars, formVars, docVars>>

Next == CallAggregateSlots \/ CallBuildTimeline

Spec == Init /\ [][Next]_vars

\* The calls of one function only.
SpecAggregate == Init /\ [][CallAggregateSlots]_vars

SpecTimeline == Init /\ [][CallBuildTimeline]_vars

(***************************************************************************)
(* Calls on an input the caller holds.                                     *)
(***************************************************************************)
\* The slot lists of the small inputs: 09:00-10:00, 09:30-24:30 and the
\* zero-length 09:30-09:30 on the first date.
SmallSlots ==
    { [date |-> Date1, startTime |-> <<0, 9, 0, 0>>, endTime |-> <<1, 0, 0, 0>>],
      [date |-> Date1, startTime |-> <<0, 9, 3, 0>>, endTime |-> <<2, 4, 3, 0>>],
      [date |-> Date1, startTime |-> <<0, 9, 3, 0>>, endTime |-> <<0, 9, 3, 0>>] }

\* rs is a list of participants with no slot or one of the small slots each.
IsSmallInput(rs) ==
    \E ids \in IdLists :
        \E sl \in [DOMAIN ids -> { <<>> } \cup { <<s>> : s \in SmallSlots }] :
            rs = [i \in DOMAIN ids |-> [id |-> ids[i], slots |-> sl[i]]]

\* "09:00", "09:30", "10:00", "10:30", "11:00", "24:30"
PairTimes ==
    { <<0, 9, 0, 0>>, <<0, 9, 3, 0>>, <<1, 0, 0, 0>>, <<1, 0, 3, 0>>,
      <<1, 1, 0, 0>>, <<2, 4, 3, 0>> }

PairSlots == [date : Dates, startTime : PairTimes, endTime : PairTimes]

\* rs is a list of the two participants, in either order, with one slot each.
IsPairInput(rs) ==
    \E ids \in { s \in IdLists : Len(s) = 2 } :
        \E sl \in [DOMAIN ids -> PairSlots] :
            rs = [i \in DOMAIN ids |-> [id |-> ids[i], slots |-> <<sl[i]>>]]

\* The caller takes another input.
TakeInput ==
    /\ IsSmallInput(responses')
    /\ called' = "none"
    /\ UNCHANGED <<aggregated, timeline, args, pageVars, formVars, docVars>>

\* aggregateSlots with a slotMap that outlives the call: the entries of the
\* previous result are still in it when the next call starts.
AggregateSlotsKeepingMap ==
    LET slotMap == [i \in DOMAIN aggregated |->
                       [key |-> slotKey(aggregated[i]), value |-> aggregated[i]]]
    IN  /\ aggregated' = sortAggregated(<<>>, mapValues(aggregateResponses(slotMap, responses)))
        /\ called' = "aggregateSlots"
        /\ args' = [args EXCEPT !["aggregateSlots"] = <<responses>>]
        /\ UNCHANGED <<responses, timeline, pageVars, formVars, docVars>>

\* aggregateSlots(responses): the function reads its argument, builds a new
\* Map and returns a new array; it writes nothing else.
AggregateSlotsOfResponses ==
    /\ aggregated' = aggregateSlots(responses)
    /\ called' = "aggregateSlots"
    /\ args' = [args EXCEPT !["aggregateSlots"] = <<responses>>]
    /\ UNCHANGED <<responses, timeline, pageVars, formVars, docVars>>

\* buildTimeline(responses): likewise, with a new Map and a new object.
BuildTimelineOfResponses ==
    /\ timeline' = buildTimeline(responses)
    /\ called' = "buildTimeline"
    /\ args' = [args EXCEPT !["buildTimeline"] = <<responses>>]
    /\ UNCHANGED <<responses, aggregated, pageVars, formVars, docVars>>

\* Calls in any order, any number of times, on inputs the caller changes.
SpecCalls ==
    Init /\ [][TakeInput \/ AggregateSlotsOfResponses \/ BuildTimelineOfResponses]_vars

\* The caller holds two participants with one slot each.
InitPairs ==
    /\ IsPairInput(responses)
    /\ aggregated = <<>>
    /\ timeline = <<>>
    /\ called = "none"
    /\ args = [f \in {"aggregateSlots", "buildTimeline"} |-> <<>>]
    /\ table = <<>>
    /\ notifications = <<>>
    /\ requests = <<>>
    /\ syncing = FALSE
    /\ FormIdle
    /\ DocsEmpty

SpecPairs ==
    InitPairs /\ [][AggregateSlotsOfResponses \/ BuildTimelineOfResponses]_vars

(***************************************************************************)
(* refreshResponses of the project page, and the saves that trigger it.    *)
(***************************************************************************)
\* The most refreshResponses invocations of a behaviour, pending callbacks
\* counted in.
MaxRefreshes == 3

\* The slot lists a participant saves.
SavedSlots == { <<s>> : s \in SmallSlots }

\* upsert(row, { onConflict: "invitee_id" }): the row of the invitee gets the
\* new slots and keeps its place, a new row is appended. The store gives a new
\* row its id; the model takes the invitee's.
upsert(rows, inviteeId, slots) ==
    IF \E i \in DOMAIN rows : rows[i].invitee_id = inviteeId
    THEN [i \in DOMAIN rows |->
             IF rows[i].invitee_id = inviteeId THEN [rows[i] EXCEPT !.slots = slots]
             ELSE rows[i]]
    ELSE Append(rows, [id |-> inviteeId, invitee_id |-> inviteeId, slots |-> slots])

\* data.map((item) => ({ id: item.id, inviteeId: item.invitee_id, slots, ... }));
\* the slots column of the rows is always an array here.
mapRows(data) ==
    [i \in DOMAIN data |->
        [id |-> data[i].id, inviteeId |-> data[i].invitee_id, slots |-> data[i].slots]]

\* handleSubmit of a participant, on this page (here) or on another client of
\* the project: with slots to save, the upsert reaches the store, which sends
\* a postgres_changes event to the page; on this page onSaved follows.
SaveAvailability ==
    \E inviteeId \in Ids, slots \in SavedSlots, here \in BOOLEAN :
        /\ Len(notifications) + Len(requests) + (IF here THEN 2 ELSE 1) <= MaxRefreshes
        /\ table' = upsert(table, inviteeId, slots)
        /\ notifications' = notifications \o
               (IF here THEN <<"postgres_changes", "onSaved">> ELSE <<"postgres_changes">>)
        /\ UNCHANGED <<responses, aggregated, timeline, called, args, requests, syncing, formVars, docVars>>

\* refreshResponses up to its await, run by the realtime callback or by
\* onSaved: setSyncing(true) and the select is sent.
StartRefresh ==
    \E i \in DOMAIN notifications :
        /\ notifications' = RemoveAt(notifications, i)
        /\ syncing' = TRUE
        /\ requests' = Append(requests, [pc |-> "sent", data |-> <<>>, error |-> FALSE])
        /\ UNCHANGED <<responses, aggregated, timeline, called, args, table, formVars, docVars>>

\* The store answers a select: the rows in created_at order, or an error.
ServeQuery ==
    \E k \in DOMAIN requests, error \in BOOLEAN :
        /\ requests[k].pc = "sent"
        /\ requests' = [requests EXCEPT ![k] =
               [pc |-> "answered", data |-> IF error THEN <<>> ELSE table, error |-> error]]
        /\ UNCHANGED <<responses, aggregated, timeline, called, args, table,
                       notifications, syncing,
                       formVars, docVars>>

\* refreshResponses after its await, for any answered select: without error
\* setResponses(data.map(...)) and the summary renders buildTimeline(responses);
\* finally setSyncing(false).
ResumeRefresh ==
    \E k \in DOMAIN requests :
        /\ requests[k].pc = "answered"
        /\ responses' = IF ~requests[k].error THEN mapRows(requests[k].data) ELSE responses
        /\ timeline' = buildTimeline(responses')
        /\ syncing' = FALSE
        /\ requests' = [requests EXCEPT ![k].pc = "done"]
        /\ UNCHANGED <<aggregated, called, args, table, notifications, formVars, docVars>>

SpecRefresh ==
    Init /\ [][SaveAvailability \/ StartRefresh \/ ServeQuery \/ ResumeRefresh]_vars

(***************************************************************************)
(* The time range slider of AvailabilityForm.                              *)
(***************************************************************************)
\* How far below 0 and above 24 * 60 the minutes handed to the form go.
BeyondDay == 3

\* The gap between the two handles of the slider.
SliderGap == 15

\* handleTimeRangeChange([start, end]): both labels are set from the minutes.
\* The draft of the active date is not part of the model.
handleTimeRangeChange ==
    \E start \in (0 - BeyondDay) .. (24 * 60 + BeyondDay - SliderGap) :
        LET end == start + SliderGap
        IN  /\ startTime' = minutesToTime(start)
            /\ endTime' = minutesToTime(end)
            /\ range' = << <<start, end>> >>
            /\ UNCHANGED <<responses, aggregated, timeline, called, args, pageVars,
                           formSlots, dragState, justDragged, segmentChange, moveEvents,
                           docVars>>

SpecRange == Init /\ [][handleTimeRangeChange]_vars

(***************************************************************************)
(* The slot list of AvailabilityForm and the drag of a segment of its      *)
(* preview in TimelineVisualizer.                                          *)
(***************************************************************************)
\* The most slots the list holds, and the most pointer-move events of one drag.
MaxFormSlots == 2

MaxMoves == 2

\* "2024-03-12", a date after allowedDates.end.
DateAfter == <<2, 0, 2, 4, 0, 3, 1, 2>>

\* allowedDates of the form.
allowedDates == [start |-> Date1, end |-> Date2]

\* The slots handed to appendSlots, by handleAddSlot from the drafts of the
\* selected dates or by addSlot from the page: on the first date every pair of
\* 09:00 and 09:30 (zero-length and reversed ones too, which only
\* handleAddSlot refuses), a slot on the second date, a slot that ends after
\* the allowed times, and a slot after the allowed dates.
FormCandidates ==
    [date : {Date1}, startTime : { minutesToTime(m) : m \in {540, 570} },
     endTime : { minutesToTime(m) : m \in {540, 570} }]
    \cup { [date |-> Date2, startTime |-> minutesToTime(540), endTime |-> minutesToTime(570)],
           [date |-> Date1, startTime |-> minutesToTime(540), endTime |-> minutesToTime(585)],
           [date |-> DateAfter, startTime |-> minutesToTime(540),
            endTime |-> minutesToTime(570)] }

\* sortSlots: by date, then startTime, then endTime.
sortSlots(a, b) ==
    IF a.date = b.date
    THEN IF a.startTime = b.startTime
         THEN localeCompare(a.endTime, b.endTime)
         ELSE localeCompare(a.startTime, b.startTime)
    ELSE localeCompare(a.date, b.date)

\* Array.prototype.sort(sortSlots), a stable sort, as an insertion sort.
RECURSIVE insertSlot(_, _)
insertSlot(sorted, slot) ==
    IF sorted = <<>> THEN <<slot>>
    ELSE IF sortSlots(slot, Head(sorted)) < 0 THEN <<slot>> \o sorted
    ELSE <<Head(sorted)>> \o insertSlot(Tail(sorted), slot)

RECURSIVE sortSlotList(_, _)
sortSlotList(sorted, rest) ==
    IF rest = <<>> THEN sorted
    ELSE sortSlotList(insertSlot(sorted, Head(rest)), Tail(rest))

\* isSlotWithinRange(slot, allowedDates, allowedTimes)
isSlotWithinRange(slot, dates, times) ==
    IF localeCompare(slot.date, dates.start) < 0 THEN FALSE
    ELSE IF localeCompare(slot.date, dates.end) > 0 THEN FALSE
    ELSE IF timeToMinutes(slot.startTime) < times.startMinutes THEN FALSE
    ELSE IF timeToMinutes(slot.endTime) > times.endMinutes THEN FALSE
    ELSE TRUE

\* The body of candidates.forEach in appendSlots: merged after one candidate.
appendCandidate(merged, slot) ==
    IF ~isSlotWithinRange(slot, allowedDates, allowedTimes) THEN merged
    ELSE IF \E i \in DOMAIN merged :
                /\ merged[i].date = slot.date
                /\ merged[i].startTime = slot.startTime
                /\ merged[i].endTime = slot.endTime
         THEN merged
         ELSE Append(merged, slot)

RECURSIVE appendCandidates(_, _)
appendCandidates(merged, candidates) ==
    IF candidates = <<>> THEN merged
    ELSE appendCandidates(appendCandidate(merged, Head(candidates)), Tail(candidates))

\* The updater of setSlots in appendSlots: added ? merged.sort(sortSlots) : prev
appendSlots(prev, candidates) ==
    LET merged == appendCandidates(prev, candidates)
    IN  IF Len(merged) > Len(prev) THEN sortSlotList(<<>>, merged) ELSE prev

\* previewResponses and previewTimeline of the form, for the participant P1.
previewResponses ==
    IF formSlots = <<>> THEN <<>> ELSE << [id |-> "P1", slots |-> formSlots] >>

previewTimeline == buildTimeline(previewResponses)

\* handleAddSlot or addSlot: appendSlots(candidates), with one candidate or
\* with one for each of two selected dates. The drafts, the selected dates and
\* the messages are not part of the model.
AppendSlots ==
    \E n \in 1..2 :
        \E candidates \in [1..n -> FormCandidates] :
            /\ n = 2 => candidates[1].date # candidates[2].date
            /\ Len(appendSlots(formSlots, candidates)) <= MaxFormSlots
            /\ formSlots' = appendSlots(formSlots, candidates)
            /\ UNCHANGED <<responses, aggregated, timeline, called, args, pageVars,
                           startTime, endTime, range, dragState, justDragged,
                           segmentChange, moveEvents, docVars>>

\* handleRemoveSlot(index)
handleRemoveSlot ==
    \E index \in DOMAIN formSlots :
        /\ formSlots' = RemoveAt(formSlots, index)
        /\ UNCHANGED <<responses, aggregated, timeline, called, args, pageVars,
                       startTime, endTime, range, dragState, justDragged,
                       segmentChange, moveEvents, docVars>>

\* const dayMinutes = 24 * 60 of TimelineVisualizer.
dayMinutes == 24 * 60

\* The pointers, the clientX of a pointer-down, and the width of the timeline
\* container in pixels (one pixel is one minute).
PointerIds == {1, 2}

\* The pointer that starts the drags.
PrimaryPointer == 1

DownX == 300

ContainerWidth == 1440

\* The clientX of a pointer-move, as its distance from the pointer-down.
MoveDeltas == {-20, -7, 8, 20}

EditModes == {"move", "resize-start", "resize-end"}

\* Math.round(value / step) * step, for integers.
snap(value, step) == ((2 * value + step) \div (2 * step)) * step

\* previewOf without any clamp to the bounds.
previewUnclamped(drag, rawDeltaMinutes) ==
    LET duration == drag.original.endMinutes - drag.original.startMinutes
    IN  IF drag.mode = "move"
        THEN [previewStart |-> snap(drag.original.startMinutes + rawDeltaMinutes, drag.step),
              previewEnd |-> snap(drag.original.startMinutes + rawDeltaMinutes, drag.step)
                             + duration]
        ELSE IF drag.mode = "resize-start"
        THEN [previewStart |-> snap(drag.original.startMinutes + rawDeltaMinutes, drag.step),
              previewEnd |-> drag.original.endMinutes]
        ELSE [previewStart |-> drag.original.startMinutes,
              previewEnd |-> snap(drag.original.endMinutes + rawDeltaMinutes, drag.step)]

\* previewStart and previewEnd as handleMove computes them: clamp, snap, clamp.
previewOf(drag, rawDeltaMinutes) ==
    LET duration == drag.original.endMinutes - drag.original.startMinutes
    IN  IF drag.mode = "move"
        THEN LET minStart == drag.minMinutes
                 maxStart == drag.maxMinutes - duration
                 c1 == Max(minStart, Min(maxStart, drag.original.startMinutes + rawDeltaMinutes))
                 c2 == snap(c1, drag.step)
                 startCandidate == Max(minStart, Min(maxStart, c2))
             IN  [previewStart |-> startCandidate, previewEnd |-> startCandidate + duration]
        ELSE IF drag.mode = "resize-start"
        THEN LET maxStart == drag.original.endMinutes - drag.minDuration
                 c1 == Max(drag.minMinutes,
                           Min(maxStart, drag.original.startMinutes + rawDeltaMinutes))
                 c2 == snap(c1, drag.step)
                 startCandidate == Max(drag.minMinutes, Min(maxStart, c2))
             IN  [previewStart |-> startCandidate, previewEnd |-> drag.original.endMinutes]
        ELSE LET minEnd == drag.original.startMinutes + drag.minDuration
                 c1 == Max(minEnd, Min(drag.maxMinutes, drag.original.endMinutes + rawDeltaMinutes))
                 c2 == snap(c1, drag.step)
                 endCandidate == Max(minEnd, Min(drag.maxMinutes, c2))
             IN  [previewStart |-> drag.original.startMinutes, previewEnd |-> endCandidate]

\* The updater of setSlots in the form's onSegmentChange: the slots with the
\* date and the labels of the original segment get the new labels, then sort.
changeSlots(prev, date, originalStart, originalEnd, newStart, newEnd) ==
    sortSlotList(<<>>,
        [i \in DOMAIN prev |->
            IF /\ prev[i].date = date
               /\ prev[i].startTime = originalStart
               /\ prev[i].endTime = originalEnd
            THEN [prev[i] EXCEPT !.startTime = newStart, !.endTime = newEnd]
            ELSE prev[i]])

\* handlePointerDown on a segment of the preview, each of which the form's
\* participant may edit: a drag starts, whatever drag there was.
handlePointerDown ==
    \E pointerId \in {PrimaryPointer}, date \in DOMAIN previewTimeline, mode \in EditModes :
        \E segmentIndex \in DOMAIN previewTimeline[date] :
            LET segment == previewTimeline[date][segmentIndex]
            IN  /\ \E i \in DOMAIN segment.participantIds : segment.participantIds[i] = "P1"
                /\ dragState' = << [pointerId |-> pointerId, date |-> date,
                                    segmentIndex |-> segmentIndex, original |-> segment,
                                    mode |-> mode, startX |-> DownX,
                                    containerWidth |-> ContainerWidth,
                                    previewStart |-> segment.startMinutes,
                                    previewEnd |-> segment.endMinutes,
                                    minMinutes |-> allowedTimes.startMinutes,
                                    maxMinutes |-> allowedTimes.endMinutes,
                                    minDuration |-> editableMinDuration,
                                    step |-> editableStep, hasMoved |-> FALSE] >>
                /\ justDragged' = FALSE
                /\ moveEvents' = 0
                /\ UNCHANGED <<responses, aggregated, timeline, called, args, pageVars,
                               formSlots, startTime, endTime, range, segmentChange,
                               docVars>>

\* handleMove, the pointermove listener there is while a drag is on: an event
\* of another pointer is ignored.
handleMove ==
    \E pointerId \in PointerIds, delta \in MoveDeltas :
        /\ dragState # <<>>
        /\ moveEvents < MaxMoves
        /\ LET drag == dragState[1]
               deltaPx == (drag.startX + delta) - drag.startX
               minutesPerPx == dayMinutes \div drag.containerWidth
               preview == previewOf(drag, deltaPx * minutesPerPx)
           IN  IF pointerId # drag.pointerId
               THEN UNCHANGED <<dragState, moveEvents>>
               ELSE /\ dragState' = << [drag EXCEPT !.previewStart = preview.previewStart,
                                                    !.previewEnd = preview.previewEnd,
                                                    !.hasMoved = TRUE] >>
                    /\ moveEvents' = moveEvents + 1
        /\ UNCHANGED <<responses, aggregated, timeline, called, args, pageVars,
                       formSlots, startTime, endTime, range, justDragged, segmentChange,
                       docVars>>

\* handleUp, the pointerup and pointercancel listener: after a move the form's
\* onSegmentChange runs (the slots, both labels; the draft, the active date and
\* the message are not part of the model), and the drag ends.
handleUp ==
    \E pointerId \in PointerIds :
        /\ dragState # <<>>
        /\ LET drag == dragState[1]
               newStart == minutesToTime(drag.previewStart)
               newEnd == minutesToTime(drag.previewEnd)
               originalStart == minutesToTime(drag.original.startMinutes)
               originalEnd == minutesToTime(drag.original.endMinutes)
           IN  IF pointerId # drag.pointerId
               THEN UNCHANGED <<formSlots, startTime, endTime, dragState, justDragged,
                                segmentChange>>
               ELSE /\ dragState' = <<>>
                    /\ IF drag.hasMoved
                       THEN /\ segmentChange' =
                                 << [segment |-> [drag.original EXCEPT
                                                     !.startMinutes = drag.previewStart,
                                                     !.endMinutes = drag.previewEnd],
                                     date |-> drag.date, original |-> drag.original,
                                     mode |-> drag.mode] >>
                            /\ formSlots' = changeSlots(formSlots, drag.date, originalStart,
                                                        originalEnd, newStart, newEnd)
                            /\ startTime' = newStart
                            /\ endTime' = newEnd
                            /\ justDragged' = TRUE
                       ELSE UNCHANGED <<formSlots, startTime, endTime, justDragged,
                                        segmentChange>>
        /\ UNCHANGED <<responses, aggregated, timeline, called, args, pageVars, range,
                       moveEvents, docVars>>

\* The form after a first appendSlots, nothing else done yet.
InitDrag ==
    /\ responses = <<>>
    /\ aggregated = <<>>
    /\ timeline = <<>>
    /\ called = "none"
    /\ args = [f \in {"aggregateSlots", "buildTimeline"} |-> <<>>]
    /\ table = <<>>
    /\ notifications = <<>>
    /\ requests = <<>>
    /\ syncing = FALSE
    /\ \E n \in 1..2 :
          \E candidates \in [1..n -> FormCandidates] :
              /\ n = 2 => candidates[1].date # candidates[2].date
              /\ formSlots = appendSlots(<<>>, candidates)
    /\ FormFresh
    /\ DocsEmpty

\* Drags on the preview of a slot list, with no slot added or removed.
SpecDrag == InitDrag /\ [][handlePointerDown \/ handleMove \/ handleUp]_vars

SpecForm ==
    Init /\ [][AppendSlots \/ handleRemoveSlot \/ handlePointerDown \/ handleMove
               \/ handleUp]_vars

(***************************************************************************)
(* The document routes: upload, sign, and the two GET routes, with the     *)
(* tables project_documents, document_versions, document_permissions,     *)
(* document_signatures and the storage bucket behind them.                 *)
(*   A file path is a record [documentId, folder, name]: name is the       *)
(* version for a merged file, the number of the request for an overlay     *)
(* (its randomUUID), 0 for the uploaded file. The content of a file is the *)
(* number of the request that submitted it.                                *)
(***************************************************************************)
\* The most route invocations of a behaviour.
MaxCalls == 2

\* The inviteeId of a request without one.
NoInvitee == "none"

\* `${projectId}/${documentId}/original/${cleanName}`
buildDocumentPath(documentId) == [documentId |-> documentId, folder |-> "original", name |-> 0]

\* `${projectId}/${documentId}/merged/v${version}.${extension}`
buildMergedPath(documentId, version) ==
    [documentId |-> documentId, folder |-> "merged", name |-> version]

\* `${projectId}/${documentId}/overlays/${inviteeId}-${randomUUID()}.png`
buildOverlayPath(documentId, uuid) ==
    [documentId |-> documentId, folder |-> "overlays", name |-> uuid]

\* storage.upload(path, file, { upsert: true }): the file at the path is replaced.
uploadDocumentFile(files, path, content) ==
    { f \in files : f.path # path } \cup { [path |-> path, content |-> content] }

\* storage.remove([path])
removeFile(files, path) == { f \in files : f.path # path }

\* A route invocation: its request, the step it is at, what it has read, and
\* its response (status 0 while there is none).
NewCall(route, documentId, inviteeId) ==
    [route |-> route, pc |-> "start", documentId |-> documentId, inviteeId |-> inviteeId,
     fileType |-> "image", sharedWithAll |-> TRUE, permissions |-> {}, overlay |-> FALSE,
     current |-> 0, version |-> 0, status |-> 0]

\* The call ends with this response.
Respond(call, status) == [call EXCEPT !.pc = "done", !.status = status]

\* metadata.permissions of an upload.
PermissionLists ==
    { {},
      { [invitee_id |-> "P1", can_view |-> TRUE, can_edit |-> FALSE] },
      { [invitee_id |-> "P1", can_view |-> TRUE, can_edit |-> TRUE],
        [invitee_id |-> "P2", can_view |-> FALSE, can_edit |-> FALSE] } }

\* POST documents up to its first await on the storage: the file and the
\* metadata are in order, documentId = randomUUID().
UploadRequest ==
    \E fileType \in {"image", "pdf"}, sharedWithAll \in BOOLEAN,
       permissions \in PermissionLists :
        /\ Len(calls) < MaxCalls
        /\ calls' = Append(calls,
               [NewCall("upload", Len(calls) + 1, NoInvitee) EXCEPT
                   !.pc = "uploadFile", !.fileType = fileType,
                   !.sharedWithAll = sharedWithAll, !.permissions = permissions])
        /\ UNCHANGED <<responses, aggregated, timeline, called, args, pageVars, formVars,
                       store, disclosed>>

\* await uploadDocumentFile(storagePath, file): on an error 500.
UploadFile ==
    \E k \in DOMAIN calls, ok \in BOOLEAN :
        /\ calls[k].route = "upload" /\ calls[k].pc = "uploadFile"
        /\ IF ok
           THEN /\ store' = [store EXCEPT !.files =
                       uploadDocumentFile(@, buildDocumentPath(calls[k].documentId), k)]
                /\ calls' = [calls EXCEPT ![k].pc = "insertDocument"]
           ELSE /\ calls' = [calls EXCEPT ![k] = Respond(@, 500)]
                /\ UNCHANGED store
        /\ UNCHANGED <<responses, aggregated, timeline, called, args, pageVars, formVars,
                       disclosed>>

\* The insert into project_documents: on an error the file is removed (an
\* error of the removal is swallowed) and the response is 500.
UploadInsertDocument ==
    \E k \in DOMAIN calls, ok \in BOOLEAN, removed \in BOOLEAN :
        /\ calls[k].route = "upload" /\ calls[k].pc = "insertDocument"
        /\ IF ok
           THEN /\ store' = [store EXCEPT !.documents = @ \cup
                       { [id |-> calls[k].documentId,
                          file_path |-> buildDocumentPath(calls[k].documentId),
                          file_type |-> calls[k].fileType, current_version |-> 1,
                          shared_with_all |-> calls[k].sharedWithAll] }]
                /\ calls' = [calls EXCEPT ![k].pc =
                       IF ~calls[k].sharedWithAll /\ calls[k].permissions # {}
                       THEN "insertPermissions" ELSE "insertVersion"]
           ELSE /\ store' = IF removed
                            THEN [store EXCEPT !.files =
                                     removeFile(@, buildDocumentPath(calls[k].documentId))]
                            ELSE store
                /\ calls' = [calls EXCEPT ![k] = Respond(@, 500)]
        /\ UNCHANGED <<responses, aggregated, timeline, called, args, pageVars, formVars,
                       disclosed>>

\* The insert into document_permissions: on an error 500.
UploadInsertPermissions ==
    \E k \in DOMAIN calls, ok \in BOOLEAN :
        /\ calls[k].route = "upload" /\ calls[k].pc = "insertPermissions"
        /\ IF ok
           THEN /\ store' = [store EXCEPT !.permissions = @ \cup
                       { [document_id |-> calls[k].documentId, invitee_id |-> p.invitee_id,
                          can_view |-> p.can_view, can_edit |-> p.can_edit] :
                         p \in calls[k].permissions }]
                /\ calls' = [calls EXCEPT ![k].pc = "insertVersion"]
           ELSE /\ calls' = [calls EXCEPT ![k] = Respond(@, 500)]
                /\ UNCHANGED store
        /\ UNCHANGED <<responses, aggregated, timeline, called, args, pageVars, formVars,
                       disclosed>>

\* The insert into document_versions of version 1: on an error 500, else 201.
UploadInsertVersion ==
    \E k \in DOMAIN calls, ok \in BOOLEAN :
        /\ calls[k].route = "upload" /\ calls[k].pc = "insertVersion"
        /\ IF ok
           THEN /\ store' = [store EXCEPT !.versions = @ \cup
                       { [document_id |-> calls[k].documentId, version |-> 1,
                          merged_file_path |-> buildDocumentPath(calls[k].documentId)] }]
                /\ calls' = [calls EXCEPT ![k] = Respond([@ EXCEPT !.version = 1], 201)]
           ELSE /\ calls' = [calls EXCEPT ![k] = Respond(@, 500)]
                /\ UNCHANGED store
        /\ UNCHANGED <<responses, aggregated, timeline, called, args, pageVars, formVars,
                       disclosed>>

SpecUpload ==
    Init /\ [][UploadRequest \/ UploadFile \/ UploadInsertDocument
               \/ UploadInsertPermissions \/ UploadInsertVersion]_vars

\* What two uploads that answered 201 leave behind: document 1, an image that
\* is not shared with all, P1 may view it and P2 may not; document 2, a PDF
\* shared with all.
UploadedStore ==
    [documents |->
        { [id |-> 1, file_path |-> buildDocumentPath(1), file_type |-> "image",
           current_version |-> 1, shared_with_all |-> FALSE],
          [id |-> 2, file_path |-> buildDocumentPath(2), file_type |-> "pdf",
           current_version |-> 1, shared_with_all |-> TRUE] },
     versions |->
        { [document_id |-> 1, version |-> 1, merged_file_path |-> buildDocumentPath(1)],
          [document_id |-> 2, version |-> 1, merged_file_path |-> buildDocumentPath(2)] },
     permissions |->
        { [document_id |-> 1, invitee_id |-> "P1", can_view |-> TRUE, can_edit |-> TRUE],
          [document_id |-> 1, invitee_id |-> "P2", can_view |-> FALSE, can_edit |-> FALSE] },
     signatures |-> {},
     files |-> { [path |-> buildDocumentPath(1), content |-> 0],
                 [path |-> buildDocumentPath(2), content |-> 0] }]

InitDocuments ==
    /\ responses = <<>>
    /\ aggregated = <<>>
    /\ timeline = <<>>
    /\ called = "none"
    /\ args = [f \in {"aggregateSlots", "buildTimeline"} |-> <<>>]
    /\ table = <<>>
    /\ notifications = <<>>
    /\ requests = <<>>
    /\ syncing = FALSE
    /\ FormIdle
    /\ store = UploadedStore
    /\ calls = <<>>
    /\ disclosed = {}

\* The documents a sign request names: the image, the PDF, and no document.
SignDocumentIds == {1, 2, 3}

\* POST sign up to its first await on the database: the payload has an
\* inviteeId and a merged image, with or without an overlay.
SignRequest ==
    \E documentId \in SignDocumentIds, inviteeId \in Ids, overlay \in BOOLEAN :
        /\ Len(calls) < MaxCalls
        /\ calls' = Append(calls, [NewCall("sign", documentId, inviteeId) EXCEPT
                                      !.pc = "read", !.overlay = overlay])
        /\ UNCHANGED <<responses, aggregated, timeline, called, args, pageVars, formVars,
                       store, disclosed>>

\* The select of file_type and current_version: 404 without a row (or on an
\* error), 400 for a document that is no image.
SignRead ==
    \E k \in DOMAIN calls, ok \in BOOLEAN :
        /\ calls[k].route = "sign" /\ calls[k].pc = "read"
        /\ LET rows == { d \in store.documents : d.id = calls[k].documentId }
           IN  IF ~ok \/ rows = {}
               THEN calls' = [calls EXCEPT ![k] = Respond(@, 404)]
               ELSE LET documentRow == CHOOSE d \in rows : TRUE
                    IN  IF documentRow.file_type # "image"
                        THEN calls' = [calls EXCEPT ![k] = Respond(@, 400)]
                        ELSE calls' = [calls EXCEPT
                                 ![k].current = documentRow.current_version,
                                 ![k].pc = IF calls[k].overlay THEN "uploadOverlay"
                                           ELSE "uploadMerged"]
        /\ UNCHANGED <<responses, aggregated, timeline, called, args, pageVars, formVars,
                       store, disclosed>>

\* await uploadDocumentFile(overlayPath, ...): on an error 500.
SignUploadOverlay ==
    \E k \in DOMAIN calls, ok \in BOOLEAN :
        /\ calls[k].route = "sign" /\ calls[k].pc = "uploadOverlay"
        /\ IF ok
           THEN /\ store' = [store EXCEPT !.files =
                       uploadDocumentFile(@, buildOverlayPath(calls[k].documentId, k), k)]
                /\ calls' = [calls EXCEPT ![k].pc = "uploadMerged"]
           ELSE /\ calls' = [calls EXCEPT ![k] = Respond(@, 500)]
                /\ UNCHANGED store
        /\ UNCHANGED <<responses, aggregated, timeline, called, args, pageVars, formVars,
                       disclosed>>

\* nextVersion = current_version + 1; await uploadDocumentFile(mergedPath, ...):
\* on an error 500.
SignUploadMerged ==
    \E k \in DOMAIN calls, ok \in BOOLEAN :
        /\ calls[k].route = "sign" /\ calls[k].pc = "uploadMerged"
        /\ LET nextVersion == calls[k].current + 1
           IN  IF ok
               THEN /\ store' = [store EXCEPT !.files =
                           uploadDocumentFile(@,
                               buildMergedPath(calls[k].documentId, nextVersion), k)]
                    /\ calls' = [calls EXCEPT ![k].version = nextVersion,
                                              ![k].pc = "insertVersion"]
               ELSE /\ calls' = [calls EXCEPT ![k] = Respond(@, 500)]
                    /\ UNCHANGED store
        /\ UNCHANGED <<responses, aggregated, timeline, called, args, pageVars, formVars,
                       disclosed>>

\* The insert into document_versions, which has unique (document_id, version):
\* on an error 500.
SignInsertVersion ==
    \E k \in DOMAIN calls, ok \in BOOLEAN :
        /\ calls[k].route = "sign" /\ calls[k].pc = "insertVersion"
        /\ IF /\ ok
              /\ ~\E v \in store.versions :
                     v.document_id = calls[k].documentId /\ v.version = calls[k].version
           THEN /\ store' = [store EXCEPT !.versions = @ \cup
                       { [document_id |-> calls[k].documentId, version |-> calls[k].version,
                          merged_file_path |->
                              buildMergedPath(calls[k].documentId, calls[k].version)] }]
                /\ calls' = [calls EXCEPT ![k].pc = "updateDocument"]
           ELSE /\ calls' = [calls EXCEPT ![k] = Respond(@, 500)]
                /\ UNCHANGED store
        /\ UNCHANGED <<responses, aggregated, timeline, called, args, pageVars, formVars,
                       disclosed>>

\* The update of current_version in project_documents: on an error 500.
SignUpdateDocument ==
    \E k \in DOMAIN calls, ok \in BOOLEAN :
        /\ calls[k].route = "sign" /\ calls[k].pc = "updateDocument"
        /\ IF ok
           THEN /\ store' = [store EXCEPT !.documents =
                       { IF d.id = calls[k].documentId
                         THEN [d EXCEPT !.current_version = calls[k].version]
                         ELSE d : d \in @ }]
                /\ calls' = [calls EXCEPT ![k].pc = "upsertSignature"]
           ELSE /\ calls' = [calls EXCEPT ![k] = Respond(@, 500)]
                /\ UNCHANGED store
        /\ UNCHANGED <<responses, aggregated, timeline, called, args, pageVars, formVars,
                       disclosed>>

\* The upsert into document_signatures on (document_id, invitee_id): on an
\* error 500, else { success: true, version: nextVersion }.
SignUpsertSignature ==
    \E k \in DOMAIN calls, ok \in BOOLEAN :
        /\ calls[k].route = "sign" /\ calls[k].pc = "upsertSignature"
        /\ IF ok
           THEN /\ store' = [store EXCEPT !.signatures =
                       { s \in @ : ~(s.document_id = calls[k].documentId
                                     /\ s.invitee_id = calls[k].inviteeId) }
                       \cup { [document_id |-> calls[k].documentId,
                               invitee_id |-> calls[k].inviteeId,
                               version |-> calls[k].version] }]
                /\ calls' = [calls EXCEPT ![k] = Respond(@, 200)]
           ELSE /\ calls' = [calls EXCEPT ![k] = Respond(@, 500)]
                /\ UNCHANGED store
        /\ UNCHANGED <<responses, aggregated, timeline, called, args, pageVars, formVars,
                       disclosed>>

SpecSign ==
    InitDocuments /\ [][SignRequest \/ SignRead \/ SignUploadOverlay \/ SignUploadMerged
                        \/ SignInsertVersion \/ SignUpdateDocument
                        \/ SignUpsertSignature]_vars

\* filterDocumentsForInvitee(rows, inviteeId, includeAll), as the ids of the
\* rows it keeps; rows come with their document_permissions.
filterDocumentsForInvitee(rows, inviteeId, includeAll) ==
    { row.id : row \in
        { r \in rows :
            IF includeAll THEN TRUE
            ELSE IF r.shared_with_all THEN TRUE
            ELSE IF inviteeId = NoInvitee THEN FALSE
            ELSE \E permission \in store.permissions :
                    /\ permission.document_id = r.id
                    /\ permission.invitee_id = inviteeId
                    /\ permission.can_view } }

\* The inviteeId of a GET request or of a listing.
RequestInvitees == Ids \cup {NoInvitee}

\* A listing of the documents of the project for an invitee.
ListDocuments ==
    \E inviteeId \in RequestInvitees, includeAll \in BOOLEAN :
        /\ disclosed' = disclosed \cup
               { [route |-> "list", documentId |-> id, inviteeId |-> inviteeId,
                  includeAll |-> includeAll] :
                 id \in filterDocumentsForInvitee(store.documents, inviteeId, includeAll) }
        /\ UNCHANGED <<responses, aggregated, timeline, called, args, pageVars, formVars,
                       store, calls>>

\* GET of a document with ?inviteeId=: 404 without a row, 403 for a document
\* not shared with all without a can_view permission of the inviteeId, 500
\* when no signed URL can be made, else the signed URL.
GetDocument ==
    \E documentId \in SignDocumentIds, inviteeId \in RequestInvitees, ok \in BOOLEAN :
        /\ LET rows == { d \in store.documents : d.id = documentId }
               hasPermission ==
                   \E permission \in store.permissions :
                       /\ permission.document_id = documentId
                       /\ permission.invitee_id = inviteeId
                       /\ permission.can_view
           IN  IF rows = {} THEN UNCHANGED disclosed
               ELSE IF ~(CHOOSE d \in rows : TRUE).shared_with_all /\ ~hasPermission
               THEN UNCHANGED disclosed
               ELSE IF ~ok THEN UNCHANGED disclosed
               ELSE disclosed' = disclosed \cup
                        { [route |-> "document", documentId |-> documentId,
                           inviteeId |-> inviteeId, includeAll |-> FALSE] }
        /\ UNCHANGED <<responses, aggregated, timeline, called, args, pageVars, formVars,
                       store, calls>>

\* GET of the file of a document, a request that carries no inviteeId: 404
\* without a row, 500 when no signed URL can be made, else the signed URL.
GetDocumentFile ==
    \E documentId \in SignDocumentIds, ok \in BOOLEAN :
        /\ LET rows == { d \in store.documents : d.id = documentId }
           IN  IF rows = {} THEN UNCHANGED disclosed
               ELSE IF ~ok THEN UNCHANGED disclosed
               ELSE disclosed' = disclosed \cup
                        { [route |-> "file", documentId |-> documentId,
                           inviteeId |-> NoInvitee, includeAll |-> FALSE] }
        /\ UNCHANGED <<responses, aggregated, timeline, called, args, pageVars, formVars,
                       store, calls>>

SpecAccess == InitDocuments /\ [][ListDocuments \/ GetDocument \/ GetDocumentFile]_vars

(***************************************************************************)
(* What the claims speak of.                                               *)
(***************************************************************************)
\* The slots of an input, each with the id of the participant it belongs to.
SlotEntries(rs) ==
    UNION { { [id |-> rs[i].id, slot |-> rs[i].slots[j]] : j \in DOMAIN rs[i].slots } :
            i \in DOMAIN rs }

\* A valid slot: start < end and start < 1440, in minutes.
ValidSlot(slot) ==
    /\ toMinutes(slot.startTime) < toMinutes(slot.endTime)
    /\ toMinutes(slot.startTime) < minutesInDay

\* The minute range [RangeStart, RangeEnd) of a valid slot, its end clamped.
RangeStart(slot) == toMinutes(slot.startTime)

RangeEnd(slot) == Min(toMinutes(slot.endTime), minutesInDay)

\* The valid slots of a date.
ValidOn(rs, date) ==
    { e \in SlotEntries(rs) : e.slot.date = date /\ ValidSlot(e.slot) }

\* Every minute at which a slot of the inputs starts or ends, with both ends of
\* the day. The ranges of the slots are unions of intervals between neighbouring
\* grid minutes, so two such unions are equal when they hold the same grid
\* minutes.
Grid == { toMinutes(t) : t \in StartTimes \cup EndTimes } \cup { 0, minutesInDay }

\* The segments the last call of buildTimeline returned for a date.
SegmentsOf(date) == IF date \in DOMAIN timeline THEN timeline[date] ELSE <<>>

OnGrid(segments) ==
    \A i \in DOMAIN segments :
        segments[i].startMinutes \in Grid /\ segments[i].endMinutes \in Grid

InSegments(segments, m) ==
    \E i \in DOMAIN segments :
        segments[i].startMinutes <= m /\ m < segments[i].endMinutes

InSlots(rs, date, m) ==
    \E e \in ValidOn(rs, date) : RangeStart(e.slot) <= m /\ m < RangeEnd(e.slot)

\* The participants with a valid slot of the date that covers [from, to).
Covering(rs, date, from, to) ==
    { e.id : e \in { x \in ValidOn(rs, date) :
                       RangeStart(x.slot) <= from /\ to <= RangeEnd(x.slot) } }

Built == called = "buildTimeline"

Aggregated == called = "aggregateSlots"

(***************************************************************************)
(* The claims on buildTimeline.                                            *)
(***************************************************************************)
\* C1: on every date of the result the segments are pairwise non-overlapping
\* and in ascending order: a later segment starts at or after the end of every
\* earlier one.
C1_SegmentsOrdered ==
    Built =>
        \A date \in DOMAIN timeline :
            \A i, j \in DOMAIN timeline[date] :
                i < j => timeline[date][j].startMinutes >= timeline[date][i].endMinutes

\* A date whose second segment starts after a gap behind the first.
C1_Witness ==
    /\ Built
    /\ \E date \in DOMAIN timeline :
          /\ Len(timeline[date]) >= 2
          /\ timeline[date][2].startMinutes > timeline[date][1].endMinutes

\* C2: on every date the segments cover exactly the minutes the valid slots of
\* the date cover, also when one participant has overlapping slots.
C2_CoverageEqualsSlots ==
    Built =>
        \A date \in Dates :
            /\ OnGrid(SegmentsOf(date))
            /\ \A m \in Grid :
                  InSegments(SegmentsOf(date), m) <=> InSlots(responses, date, m)

\* C3: the participantIds of a segment are exactly the participants with a
\* valid slot of the date that covers the whole segment.
C3_ParticipantsExact ==
    Built =>
        \A date \in DOMAIN timeline :
            \A i \in DOMAIN timeline[date] :
                LET seg == timeline[date][i]
                IN  Range(seg.participantIds) =
                        Covering(responses, date, seg.startMinutes, seg.endMinutes)

\* C4: the segments are maximal runs: two consecutive segments that touch never
\* carry the same set of participantIds.
C4_MaximalRuns ==
    Built =>
        \A date \in DOMAIN timeline :
            \A i \in DOMAIN timeline[date] :
                (/\ i < Len(timeline[date])
                 /\ timeline[date][i].endMinutes = timeline[date][i + 1].startMinutes)
                => Range(timeline[date][i].participantIds)
                       # Range(timeline[date][i + 1].participantIds)

\* The input without slot j of participant i.
WithoutSlot(rs, i, j) == [rs EXCEPT ![i].slots = RemoveAt(@, j)]

\* C9: a slot with end <= start or with start >= 1440 contributes nothing: the
\* result is the result for the input without that slot.
C9_InvalidSlotIgnored ==
    Built =>
        \A i \in DOMAIN responses :
            \A j \in DOMAIN responses[i].slots :
                ~ValidSlot(responses[i].slots[j])
                => buildTimeline(WithoutSlot(responses, i, j)) = timeline

\* An input with a zero-length slot and a slot that starts at 24:00 and ends
\* after it, next to a valid slot that gives a segment.
C9_Witness ==
    /\ Built
    /\ \E e \in SlotEntries(responses) :
          toMinutes(e.slot.startTime) = toMinutes(e.slot.endTime)
    /\ \E e \in SlotEntries(responses) :
          /\ toMinutes(e.slot.startTime) >= minutesInDay
          /\ toMinutes(e.slot.endTime) > toMinutes(e.slot.startTime)
    /\ \E date \in DOMAIN timeline : Len(timeline[date]) >= 1

\* A timeline with the participantIds of every segment as a set.
AsSets(tl) ==
    [date \in DOMAIN tl |->
        [i \in DOMAIN tl[date] |->
            [startMinutes |-> tl[date][i].startMinutes,
             endMinutes |-> tl[date][i].endMinutes,
             participantIds |-> Range(tl[date][i].participantIds)]]]

\* The inputs that differ from rs by exchanging two neighbouring participants
\* or two neighbouring slots of one participant. Every permutation of the
\* participant list and of the slot lists is a chain of such exchanges, and
\* every input of the chain is an input of the model.
Exchanges(rs) ==
    { SwapAt(rs, i) : i \in 1..(Len(rs) - 1) }
    \cup UNION { { [rs EXCEPT ![i].slots = SwapAt(@, j)] :
                     j \in 1..(Len(rs[i].slots) - 1) } : i \in DOMAIN rs }

\* C10: the result is the same (dates, segment boundaries in order,
\* participantIds as sets) for every order of the participants and of the
\* slots of each participant.
C10_OrderIndependent ==
    Built => \A rs \in Exchanges(responses) : AsSets(buildTimeline(rs)) = AsSets(timeline)

\* Two participants, one of them with two different valid slots on one date,
\* and a segment that holds both participants.
C10_Witness ==
    /\ Built
    /\ Len(responses) = 2
    /\ \E i \in DOMAIN responses :
          \E j, k \in DOMAIN responses[i].slots :
              /\ responses[i].slots[j] # responses[i].slots[k]
              /\ responses[i].slots[j].date = responses[i].slots[k].date
              /\ ValidSlot(responses[i].slots[j])
              /\ ValidSlot(responses[i].slots[k])
    /\ \E date \in DOMAIN timeline :
          \E i \in DOMAIN timeline[date] : Len(timeline[date][i].participantIds) = 2

(***************************************************************************)
(* The claims on aggregateSlots.                                           *)
(***************************************************************************)
\* The (date, startTime, endTime) triple of a slot or of an AggregatedSlot.
Triple(s) == [date |-> s.date, startTime |-> s.startTime, endTime |-> s.endTime]

\* The number a string of digits writes: the day of a date as YYYYMMDD.
RECURSIVE DigitsValue(_)
DigitsValue(s) ==
    IF s = <<>> THEN 0 ELSE DigitsValue(SubSeq(s, 1, Len(s) - 1)) * 10 + s[Len(s)]

\* C5: the participantIds of an AggregatedSlot are exactly the participants
\* whose slot list contains its (date, startTime, endTime) triple.
C5_AggregatedParticipantsExact ==
    Aggregated =>
        \A i \in DOMAIN aggregated :
            Range(aggregated[i].participantIds) =
                { e.id : e \in { x \in SlotEntries(responses) :
                                   Triple(x.slot) = Triple(aggregated[i]) } }

\* One entry that both participants share and one entry of only one of them.
C5_Witness ==
    /\ Aggregated
    /\ \E i, j \in DOMAIN aggregated :
          /\ Range(aggregated[i].participantIds) = Ids
          /\ Cardinality(Range(aggregated[j].participantIds)) = 1

\* C6: the list is sorted by date ascending and, on the same date, by
\* startTime ascending.
C6_AggregatedSorted ==
    Aggregated =>
        \A i, j \in DOMAIN aggregated :
            i < j =>
                \/ DigitsValue(aggregated[i].date) < DigitsValue(aggregated[j].date)
                \/ /\ aggregated[i].date = aggregated[j].date
                   /\ toMinutes(aggregated[i].startTime) <= toMinutes(aggregated[j].startTime)

\* Three entries on two dates, two of them on one date with different starts,
\* from an input whose first slot is not the first entry of the result.
C6_Witness ==
    /\ Aggregated
    /\ Len(aggregated) = 3
    /\ aggregated[1].date # aggregated[3].date
    /\ \E i \in 1..2 :
          /\ aggregated[i].date = aggregated[i + 1].date
          /\ aggregated[i].startTime # aggregated[i + 1].startTime
    /\ Len(responses[1].slots) >= 1
    /\ Triple(responses[1].slots[1]) # Triple(aggregated[1])

\* C7: one entry for each distinct (date, startTime, endTime) triple of the
\* input: no two entries share a triple, every triple of the input has an
\* entry, and slots that differ in a field stay apart.
C7_OneEntryPerTriple ==
    Aggregated =>
        /\ \A i, j \in DOMAIN aggregated :
              i # j => Triple(aggregated[i]) # Triple(aggregated[j])
        /\ { Triple(aggregated[i]) : i \in DOMAIN aggregated }
               = { Triple(e.slot) : e \in SlotEntries(responses) }

\* Three slots, two of them the same triple, the third on the same date with
\* the same start and another end: two entries.
C7_Witness ==
    /\ Aggregated
    /\ Len(aggregated) = 2
    /\ SumTo([i \in DOMAIN responses |-> Len(responses[i].slots)], Len(responses)) = 3
    /\ aggregated[1].date = aggregated[2].date
    /\ aggregated[1].startTime = aggregated[2].startTime
    /\ aggregated[1].endTime # aggregated[2].endTime

\* C8: no AggregatedSlot is produced for a slot with startTime equal to
\* endTime.
C8_ZeroLengthExcluded ==
    Aggregated =>
        \A i \in DOMAIN aggregated : aggregated[i].startTime # aggregated[i].endTime

(***************************************************************************)
(* The scenarios of two participants, and the empty input.                 *)
(***************************************************************************)
\* The result in the state is the result for the input the caller holds.
TimelineCurrent == args["buildTimeline"] = <<responses>>

AggregatedCurrent == args["aggregateSlots"] = <<responses>>

\* The events of a date in the order the sweep processes them.
SortedEvents(rs, date) == sortEvents(<<>>, eventsOf(collectResponses(<<>>, rs), date))

\* Participant i's only slot ends at the minute the other participant's only
\* slot starts, on the same date: [s, t) and [t, e) with s < t < e.
BackToBack(rs, i) ==
    LET a == rs[i].slots[1]
        b == rs[3 - i].slots[1]
    IN  /\ a.date = b.date
        /\ toMinutes(a.startTime) < toMinutes(a.endTime)
        /\ toMinutes(a.endTime) = toMinutes(b.startTime)
        /\ toMinutes(b.startTime) < toMinutes(b.endTime)

\* C11: for back-to-back slots of two participants the result is exactly the
\* two adjacent segments [s, t) of the first and [t, e) of the second (e not
\* beyond 1440), and at equal minutes no start event is processed before an
\* end event.
C11_BackToBackTwoSegments ==
    TimelineCurrent =>
        \A i \in 1..2 :
            BackToBack(responses, i) =>
                LET a == responses[i].slots[1]
                    b == responses[3 - i].slots[1]
                    ev == SortedEvents(responses, a.date)
                IN  /\ timeline =
                         (a.date :>
                            << [startMinutes |-> toMinutes(a.startTime),
                                endMinutes |-> toMinutes(a.endTime),
                                participantIds |-> <<responses[i].id>>],
                               [startMinutes |-> toMinutes(b.startTime),
                                endMinutes |-> Min(toMinutes(b.endTime), minutesInDay),
                                participantIds |-> <<responses[3 - i].id>>] >>)
                    /\ \A j, k \in DOMAIN ev :
                          (j < k /\ ev[j].minutes = ev[k].minutes)
                          => ~(ev[j].type = "start" /\ ev[k].type = "end")

\* The second participant of the list has 09:00-10:00, the first 10:00-11:00,
\* and buildTimeline has run on them.
C11_Witness ==
    /\ TimelineCurrent
    /\ BackToBack(responses, 2)
    /\ toMinutes(responses[2].slots[1].startTime) = 540
    /\ toMinutes(responses[1].slots[1].startTime) = 600
    /\ toMinutes(responses[1].slots[1].endTime) = 660
    /\ Len(timeline[responses[1].slots[1].date]) = 2

\* Participant i's only slot [a, c) and the other's only slot [b, d) overlap in
\* part on one date: a < b < c < d.
PartialOverlap(rs, i) ==
    LET x == rs[i].slots[1]
        y == rs[3 - i].slots[1]
    IN  /\ x.date = y.date
        /\ toMinutes(x.startTime) < toMinutes(y.startTime)
        /\ toMinutes(y.startTime) < toMinutes(x.endTime)
        /\ toMinutes(x.endTime) < toMinutes(y.endTime)

\* C15: for slots [a, c) of one participant and [b, d) of the other with
\* a < b < c < d the result is exactly [a, b) with the first, [b, c) with both
\* and [c, d) with the second, in that order (d not beyond 1440).
C15_PartialOverlapThreeSegments ==
    TimelineCurrent =>
        \A i \in 1..2 :
            PartialOverlap(responses, i) =>
                LET x == responses[i].slots[1]
                    y == responses[3 - i].slots[1]
                IN  AsSets(timeline) =
                        (x.date :>
                           << [startMinutes |-> toMinutes(x.startTime),
                               endMinutes |-> toMinutes(y.startTime),
                               participantIds |-> {responses[i].id}],
                              [startMinutes |-> toMinutes(y.startTime),
                               endMinutes |-> toMinutes(x.endTime),
                               participantIds |-> {responses[i].id, responses[3 - i].id}],
                              [startMinutes |-> toMinutes(x.endTime),
                               endMinutes |-> Min(toMinutes(y.endTime), minutesInDay),
                               participantIds |-> {responses[3 - i].id}] >>)

\* 09:00-10:00 and 09:30-10:30: the segments 540-570, 570-600, 600-630.
C15_Witness ==
    /\ TimelineCurrent
    /\ \E i \in 1..2 :
          /\ PartialOverlap(responses, i)
          /\ toMinutes(responses[i].slots[1].startTime) = 540
          /\ toMinutes(responses[i].slots[1].endTime) = 600
          /\ toMinutes(responses[3 - i].slots[1].startTime) = 570
          /\ toMinutes(responses[3 - i].slots[1].endTime) = 630
          /\ Len(timeline[responses[i].slots[1].date]) = 3

\* Both participants have the same valid slot and no other.
IdenticalValidSlot(rs) ==
    /\ rs[1].slots[1] = rs[2].slots[1]
    /\ ValidSlot(rs[1].slots[1])

\* C16: when both participants submit the identical valid slot, aggregateSlots
\* returns one AggregatedSlot with both ids and buildTimeline returns for the
\* date one segment [start, end) with both ids.
C16_IdenticalSlotCollapses ==
    IdenticalValidSlot(responses) =>
        LET s == responses[1].slots[1]
        IN  /\ AggregatedCurrent =>
                  /\ Len(aggregated) = 1
                  /\ Triple(aggregated[1]) = Triple(s)
                  /\ Range(aggregated[1].participantIds) = Ids
            /\ TimelineCurrent =>
                  AsSets(timeline) =
                      (s.date :> << [startMinutes |-> toMinutes(s.startTime),
                                     endMinutes |-> Min(toMinutes(s.endTime), minutesInDay),
                                     participantIds |-> Ids] >>)

\* Both functions have run on two participants with the same valid slot.
C16_Witness ==
    /\ IdenticalValidSlot(responses)
    /\ AggregatedCurrent
    /\ TimelineCurrent
    /\ Len(aggregated) = 1

\* C14: for the empty participant list aggregateSlots returns the empty list
\* and buildTimeline the mapping without a date.
C14_EmptyInputEmptyResults ==
    responses = <<>> =>
        /\ AggregatedCurrent => aggregated = <<>>
        /\ TimelineCurrent => DOMAIN timeline = {}

\* Both functions have run on the empty list.
C14_Witness ==
    /\ responses = <<>>
    /\ AggregatedCurrent
    /\ TimelineCurrent

(***************************************************************************)
(* Further claims on the results.                                          *)
(***************************************************************************)
\* C12: the result has a key for a date exactly when some participant has a
\* valid slot on that date; a date with only invalid slots has no key.
C12_KeyIffValidSlot ==
    Built => DOMAIN timeline = { date \in Dates : ValidOn(responses, date) # {} }

\* The first date carries slots, all of them invalid, and has no key; the
\* second date has a key.
C12_Witness ==
    /\ Built
    /\ \E e \in SlotEntries(responses) : e.slot.date = Date1
    /\ ValidOn(responses, Date1) = {}
    /\ DOMAIN timeline = {Date2}

\* C13: no participant id appears twice in the participantIds of an
\* AggregatedSlot, also when a participant lists the same triple twice.
C13_ParticipantOncePerEntry ==
    Aggregated =>
        \A i \in DOMAIN aggregated :
            \A j, k \in DOMAIN aggregated[i].participantIds :
                j # k => aggregated[i].participantIds[j] # aggregated[i].participantIds[k]

\* C18: every segment has 0 <= startMinutes < endMinutes <= 1440 and at least
\* one participant.
C18_SegmentsWellFormed ==
    Built =>
        \A date \in DOMAIN timeline :
            \A i \in DOMAIN timeline[date] :
                LET seg == timeline[date][i]
                IN  /\ 0 <= seg.startMinutes
                    /\ seg.startMinutes < seg.endMinutes
                    /\ seg.endMinutes <= minutesInDay
                    /\ Len(seg.participantIds) >= 1

\* A slot that ends after 24:00 gives a segment that ends at 1440, behind a
\* gap in which nobody is available.
C18_Witness ==
    /\ Built
    /\ \E e \in SlotEntries(responses) :
          ValidSlot(e.slot) /\ toMinutes(e.slot.endTime) > minutesInDay
    /\ \E date \in DOMAIN timeline :
          /\ Len(timeline[date]) = 2
          /\ timeline[date][1].endMinutes < timeline[date][2].startMinutes
          /\ timeline[date][2].endMinutes = minutesInDay

\* The input reduced to a date: the participants with a slot on the date, in
\* their order, each with their slots of the date, in their order.
OnlyDate(rs, date) ==
    LET kept == SelectSeq(rs, LAMBDA r : \E j \in DOMAIN r.slots : r.slots[j].date = date)
    IN  [i \in DOMAIN kept |->
            [id |-> kept[i].id,
             slots |-> SelectSeq(kept[i].slots, LAMBDA s : s.date = date)]]

\* The segment list of a date in a timeline, empty when the date has no key.
SegmentsIn(tl, date) == IF date \in DOMAIN tl THEN tl[date] ELSE <<>>

\* C20: the segment list of a date depends only on the slots of that date: it
\* is the list buildTimeline returns for the input reduced to the date, so
\* slots on other dates, and participants with slots only there, do not
\* change it.
C20_DateIndependent ==
    Built =>
        \A date \in Dates :
            SegmentsOf(date) = SegmentsIn(buildTimeline(OnlyDate(responses, date)), date)

\* Both dates have segments, from slots of different participants.
C20_Witness ==
    /\ Built
    /\ Len(responses) = 2
    /\ \A date \in Dates : Len(SegmentsOf(date)) >= 1
    /\ \E i \in DOMAIN responses :
          \A j \in DOMAIN responses[i].slots : responses[i].slots[j].date = Date2

C19_LatestRefreshWins ==
    ( /\ requests # <<>>
      /\ \A k \in DOMAIN requests : requests[k].pc = "done"
      /\ ~requests[Len(requests)].error )
    => /\ responses = mapRows(requests[Len(requests)].data)
       /\ timeline = buildTimeline(mapRows(requests[Len(requests)].data))

(***************************************************************************)
(* Repeated slots, a participant's own slots apart, and the dates kept.    *)
(***************************************************************************)
\* C21: when a participant's list holds the same valid slot twice, the result
\* is the result for the list with one of the two taken out.
C21_RepeatedSlotIdempotent ==
    Built =>
        \A i \in DOMAIN responses :
            \A j, k \in DOMAIN responses[i].slots :
                (/\ j < k
                 /\ responses[i].slots[j] = responses[i].slots[k]
                 /\ ValidSlot(responses[i].slots[j]))
                => buildTimeline(WithoutSlot(responses, i, k)) = timeline

\* A participant lists a valid slot twice, next to another participant with a
\* valid slot on the same date.
C21_Witness ==
    /\ Built
    /\ Len(responses) = 2
    /\ \E j, k \in DOMAIN responses[1].slots :
          /\ j < k
          /\ responses[1].slots[j] = responses[1].slots[k]
          /\ ValidSlot(responses[1].slots[j])
          /\ \E l \in DOMAIN responses[2].slots :
                /\ ValidSlot(responses[2].slots[l])
                /\ responses[2].slots[l].date = responses[1].slots[j].date
    /\ timeline # <<>>

\* Two valid slots overlap when they are on the same date and their ranges
\* share a minute.
Overlapping(s1, s2) ==
    /\ s1.date = s2.date
    /\ RangeStart(s1) < RangeEnd(s2)
    /\ RangeStart(s2) < RangeEnd(s1)

\* No participant has two valid slots that overlap.
OwnSlotsApart(rs) ==
    \A i \in DOMAIN rs :
        \A j, k \in DOMAIN rs[i].slots :
            (j # k /\ ValidSlot(rs[i].slots[j]) /\ ValidSlot(rs[i].slots[k]))
            => ~Overlapping(rs[i].slots[j], rs[i].slots[k])

\* C23: when no participant has two valid slots that overlap, the segments of
\* each date cover exactly the minutes the valid slots of the date cover, and
\* the participantIds of a segment are the participants with a valid slot that
\* covers the whole segment.
C23_ExactWhenOwnSlotsApart ==
    (Built /\ OwnSlotsApart(responses)) =>
        /\ \A date \in Dates :
              /\ OnGrid(SegmentsOf(date))
              /\ \A m \in Grid :
                    InSegments(SegmentsOf(date), m) <=> InSlots(responses, date, m)
        /\ \A date \in DOMAIN timeline :
              \A i \in DOMAIN timeline[date] :
                  LET seg == timeline[date][i]
                  IN  Range(seg.participantIds) =
                          Covering(responses, date, seg.startMinutes, seg.endMinutes)

\* A participant has two valid slots that touch, listed the later one first,
\* and another participant has a valid slot on that date.
C23_Witness ==
    /\ Built
    /\ OwnSlotsApart(responses)
    /\ Len(responses) = 2
    /\ \E i \in DOMAIN responses :
          /\ Len(responses[i].slots) = 2
          /\ ValidSlot(responses[i].slots[1])
          /\ ValidSlot(responses[i].slots[2])
          /\ responses[i].slots[1].date = responses[i].slots[2].date
          /\ RangeStart(responses[i].slots[1]) = RangeEnd(responses[i].slots[2])
          /\ \E k \in DOMAIN responses : 
                /\ k # i
                /\ \E l \in DOMAIN responses[k].slots :
                      /\ ValidSlot(responses[k].slots[l])
                      /\ responses[k].slots[l].date = responses[i].slots[1].date

\* C24: every date key of the result has at least one segment.
C24_NoEmptyDate ==
    Built => \A date \in DOMAIN timeline : Len(timeline[date]) >= 1

\* Both dates are keys, and the input holds an invalid slot as well.
C24_Witness ==
    /\ Built
    /\ DOMAIN timeline = Dates
    /\ \E e \in SlotEntries(responses) : ~ValidSlot(e.slot)

(***************************************************************************)
(* Minutes to label and back.                                              *)
(***************************************************************************)
\* The label the form holds for handle i of the slider.
LabelOf(i) == IF i = 1 THEN startTime ELSE endTime

\* C22: for minutes m in 0..1440 the label parses back to m, with toMinutes
\* and with timeToMinutes; minutes below 0 give the label of 0 and minutes
\* above 1440 the label of 1440, which is "24:00".
C22_MinutesRoundTrip ==
    range # <<>> =>
        \A i \in 1..2 :
            LET m == range[1][i]
            IN  /\ (0 <= m /\ m <= minutesInDay) =>
                      /\ toMinutes(LabelOf(i)) = m
                      /\ timeToMinutes(LabelOf(i)) = m
                /\ m < 0 => LabelOf(i) = <<0, 0, 0, 0>>
                /\ m > minutesInDay => LabelOf(i) = <<2, 4, 0, 0>>
                /\ m = minutesInDay => LabelOf(i) = <<2, 4, 0, 0>>

\* The slider was at 23:46 and one minute after the end of the day.
C22_Witness ==
    /\ range = << <<1426, 1441>> >>
    /\ startTime = <<2, 3, 4, 6>>
    /\ endTime = <<2, 4, 0, 0>>

(***************************************************************************)
(* The drag of a segment, and the slot list of the form.                   *)
(***************************************************************************)
\* The drag started on a segment inside the bounds that lasts minDuration or
\* longer.
DragInBounds(drag) ==
    /\ drag.minMinutes <= drag.original.startMinutes
    /\ drag.original.endMinutes <= drag.maxMinutes
    /\ drag.original.endMinutes - drag.original.startMinutes >= drag.minDuration

\* What holds of the preview of such a drag.
PreviewInBounds(drag) ==
    /\ drag.minMinutes <= drag.previewStart
    /\ drag.previewEnd <= drag.maxMinutes
    /\ drag.previewEnd - drag.previewStart >= drag.minDuration
    /\ drag.mode = "move" =>
          drag.previewEnd - drag.previewStart
              = drag.original.endMinutes - drag.original.startMinutes
    /\ drag.mode = "resize-start" => drag.previewEnd = drag.original.endMinutes
    /\ drag.mode = "resize-end" => drag.previewStart = drag.original.startMinutes

\* C29: while a drag started on a segment inside the bounds is on, the preview
\* stays inside the bounds, lasts minDuration or longer and keeps what the mode
\* keeps; and a step in which onSegmentChange is called follows a pointer-move
\* event of the dragging pointer.
C29_DragPreviewBounded ==
    [][ /\ (dragState' # <<>> /\ DragInBounds(dragState'[1]))
            => PreviewInBounds(dragState'[1])
        /\ (segmentChange' # segmentChange \/ (justDragged' /\ ~justDragged))
            => (moveEvents > 0 /\ dragState # <<>> /\ dragState' = <<>>) ]_vars

\* A move drag pushed against the upper bound, and a resize that went as far
\* as minDuration allows, after two pointer-move events.
C29_Witness ==
    /\ dragState # <<>>
    /\ moveEvents = 2
    /\ DragInBounds(dragState[1])
    /\ dragState[1].hasMoved
    /\ dragState[1].mode = "resize-start"
    /\ dragState[1].original.endMinutes - dragState[1].original.startMinutes
           = 2 * dragState[1].minDuration
    /\ dragState[1].previewEnd - dragState[1].previewStart = dragState[1].minDuration
    /\ segmentChange # <<>>
    /\ segmentChange[1].mode = "move"
    /\ segmentChange[1].segment.endMinutes = allowedTimes.endMinutes
    /\ segmentChange[1].segment.startMinutes > segmentChange[1].original.startMinutes

\* C30: the slot list holds no two entries with the same date, startTime and
\* endTime, is sorted by date, then startTime, then endTime, and every slot of
\* it lies within the allowed dates and times.
C30_SlotListDistinctSorted ==
    /\ \A i, j \in DOMAIN formSlots : i # j => formSlots[i] # formSlots[j]
    /\ \A i, j \in DOMAIN formSlots : i < j => sortSlots(formSlots[i], formSlots[j]) <= 0
    /\ \A i \in DOMAIN formSlots :
          isSlotWithinRange(formSlots[i], allowedDates, allowedTimes)

(***************************************************************************)
(* The document routes.                                                    *)
(***************************************************************************)
\* C27: an upload that answered with an error left no project_documents row
\* and no file of its document id; an upload that answered 201 left the row
\* with current_version 1, the document_versions row of version 1 and, when
\* not shared with all, the permission rows it was asked for.
C27_UploadAllOrNothing ==
    \A k \in DOMAIN calls :
        (calls[k].route = "upload" /\ calls[k].pc = "done") =>
            /\ calls[k].status >= 400 =>
                  /\ ~\E d \in store.documents : d.id = calls[k].documentId
                  /\ ~\E f \in store.files : f.path.documentId = calls[k].documentId
            /\ calls[k].status = 201 =>
                  /\ \E d \in store.documents :
                        d.id = calls[k].documentId /\ d.current_version = 1
                  /\ \E v \in store.versions :
                        v.document_id = calls[k].documentId /\ v.version = 1
                  /\ ~calls[k].sharedWithAll =>
                        \A p \in calls[k].permissions :
                            \E q \in store.permissions :
                                /\ q.document_id = calls[k].documentId
                                /\ q.invitee_id = p.invitee_id
                                /\ q.can_view = p.can_view

\* The sign requests that have read this version of this document and have
\* their response.
SignedFrom(documentId, v) ==
    { k \in DOMAIN calls :
        /\ calls[k].route = "sign"
        /\ calls[k].pc = "done"
        /\ calls[k].documentId = documentId
        /\ calls[k].current = v }

\* C25: of two sign requests on a document that both read current_version v,
\* at most one has a success response, and the file at the merged path of
\* version v + 1 is the merged image of the one that succeeded.
C25_OneSignerWins ==
    \A j, k \in DOMAIN calls :
        (/\ j # k
         /\ calls[j].current >= 1
         /\ j \in SignedFrom(calls[j].documentId, calls[j].current)
         /\ k \in SignedFrom(calls[j].documentId, calls[j].current))
        => /\ ~(calls[j].status = 200 /\ calls[k].status = 200)
           /\ calls[j].status = 200 =>
                 \E f \in store.files :
                     /\ f.path = buildMergedPath(calls[j].documentId, calls[j].current + 1)
                     /\ f.content = j

\* The highest version document_versions has of a document.
HighestVersion(documentId) ==
    LET vs == { v.version : v \in { w \in store.versions : w.document_id = documentId } }
    IN  CHOOSE v \in vs : \A w \in vs : w <= v

\* C26: when every sign request has its response, current_version of each
\* document is the highest version document_versions has of it, and each
\* success response carries the current_version the request read plus 1.
C26_CurrentVersionIsHighest ==
    (\A k \in DOMAIN calls : calls[k].pc = "done") =>
        /\ \A d \in store.documents : d.current_version = HighestVersion(d.id)
        /\ \A k \in DOMAIN calls :
              calls[k].status = 200 => calls[k].version = calls[k].current + 1

\* C28: a document that is not shared with all is listed without includeAll,
\* or handed out by a GET route, only for an inviteeId with a can_view
\* permission on it, never for a request without inviteeId.
C28_UnsharedNeedsPermission ==
    \A x \in disclosed :
        (/\ ~x.includeAll
         /\ \E d \in store.documents : d.id = x.documentId /\ ~d.shared_with_all)
        => /\ x.inviteeId # NoInvitee
           /\ \E permission \in store.permissions :
                 /\ permission.document_id = x.documentId
                 /\ permission.invitee_id = x.inviteeId
                 /\ permission.can_view

====
